---- MODULE Spec2Model ----
(***************************************************************************)
(* A model of src/IMPROVED_VERSION.py: the FastLoop decision cycle          *)
(* (run_strategy and what it calls), the retry loop of api_request,         *)
(* load_config, and concurrent invocations of get_coingecko_momentum.       *)
(*                                                                          *)
(* Numbers.  Prices, volumes and instants are naturals.  A float the code   *)
(* computes by a division (momentum_pct, volume_ratio) is kept as the exact *)
(* rational num/den in lowest terms with den > 0, so a comparison with a    *)
(* threshold is the comparison of the real values.  min_momentum_pct is     *)
(* held in tenths of a percent (0.5 is 5).                                  *)
(***************************************************************************)
EXTENDS Integers, Sequences, FiniteSets, TLC

\* ------------------------------------------------------------------ bounds
MaxPrice == 2
MaxListing == 2
MaxSlack == 2
MaxNow == 0
MaxCandles == 2
MaxVol == 3
MaxRetries == 3

\* ------------------------------------------------------- program constants
\* CONFIG_SCHEMA["min_time_remaining"]["default"]
DefaultMinTimeRemaining == 60

\* state.get(key, ...) finding no entry / a parser returning None
NoEntry == -1

Assets == {"BTC", "ETH"}
Prices == 0..MaxPrice
Deadlines == DefaultMinTimeRemaining..(DefaultMinTimeRemaining + MaxSlack)
Instants == 0..MaxNow

\* min_momentum_pct values a user configuration may hold, in tenths of a
\* percent: 0 (no momentum is too weak) and 50.  With the prices of the
\* model a momentum is a multiple of 50 or a third of 100, which the default
\* 0.5 gates as 50 does except at 50 itself.
MinMomentumChoices == {0, 500}

\* ----------------------------------------------------------------- helpers
Abs(x) == IF x < 0 THEN -x ELSE x

RECURSIVE Gcd(_, _)
Gcd(a, b) == IF b = 0 THEN a ELSE Gcd(b, a % b)

\* The rational n/d (d > 0) in lowest terms.
Rat(n, d) ==
    LET g == Gcd(Abs(n), d)
    IN  [num |-> n \div g, den |-> d \div g]

RECURSIVE SumSeq(_)
SumSeq(s) == IF s = <<>> THEN 0 ELSE Head(s) + SumSeq(Tail(s))

RECURSIVE SeqsOfLen(_, _)
\* All sequences over S of length exactly n.
SeqsOfLen(S, n) ==
    IF n = 0 THEN {<<>>}
    ELSE {Append(s, x) : s \in SeqsOfLen(S, n - 1), x \in S}

\* ------------------------------------------------ discover_markets (pure)
\* One record of the listing, by what discover_markets reads of it:
\*   qmatch     the lower-cased question contains one of the asset's patterns
\*   slugmatch  the slug contains "-{window}-"
\*   deadline   what parse_et_to_utc returns for the question (NoEntry: None)
\*   prices     the outcomePrices field: absent, null, a string that is not
\*              JSON ("invalid"), or the JSON text of a pair ("valid")
ListingRecords ==
    [qmatch : BOOLEAN, slugmatch : BOOLEAN,
     deadline : Deadlines \cup {NoEntry},
     prices : {"absent", "null", "invalid", "valid"}]

\* m.get("outcomePrices", "[0.5, 0.5]"): the argument handed to json.loads.
OutcomePricesArg(m) ==
    CASE m.prices = "absent" -> "[0.5, 0.5]"
      [] m.prices = "null" -> "None"
      [] m.prices = "invalid" -> "oops"
      [] OTHER -> "[0.6, 0.4]"

\* json.loads: a list of two numbers (in tenths), or the exception it raises
\* (TypeError for None, JSONDecodeError for text that is not JSON).
JsonLoads(text) ==
    CASE text = "[0.5, 0.5]" -> [ok |-> TRUE, value |-> <<5, 5>>]
      [] text = "[0.6, 0.4]" -> [ok |-> TRUE, value |-> <<6, 4>>]
      [] OTHER -> [ok |-> FALSE, value |-> <<>>]

\* The asset-pattern and window-slug test of line 129.
PassesFilter(m) == m.qmatch /\ m.slugmatch

\* One iteration of the loop over the listing, for the record m at position
\* k: the iteration raises (fault), appends a candidate (keep) or passes on.
\* Of a candidate the model keeps its place in the listing (idx, standing for
\* question, slug and condition_id), end_time and outcome_prices; the
\* conversion of feeRateBps is left out.
ParseRecord(m, k) ==
    IF ~PassesFilter(m) \/ m.deadline = NoEntry
    THEN [fault |-> FALSE, keep |-> FALSE, cand |-> <<>>]
    ELSE LET loaded == JsonLoads(OutcomePricesArg(m))
         IN  IF ~loaded.ok
             THEN [fault |-> TRUE, keep |-> FALSE, cand |-> <<>>]
             ELSE [fault |-> FALSE, keep |-> TRUE,
                   cand |-> [idx |-> k, end_time |-> m.deadline,
                             outcome_prices |-> loaded.value]]

\* --------------------------------------------- run_strategy: target market
\* A slip: >= for >.
IsValidOrEqual(m, t, c) == m.end_time - t >= c.min_time_remaining

\* (m['end_time'] - now).total_seconds() > cfg['min_time_remaining']
IsValid(m, t, c) == m.end_time - t > c.min_time_remaining

ValidMarkets(ms, t, c) == SelectSeq(ms, LAMBDA m : IsValid(m, t, c))

\* A slip: a sort that is not stable (an element goes before its equals).
RECURSIVE InsertBeforeEquals(_, _)
InsertBeforeEquals(x, s) ==
    IF s = <<>> THEN <<x>>
    ELSE IF Head(s).end_time < x.end_time
         THEN <<Head(s)>> \o InsertBeforeEquals(x, Tail(s))
         ELSE <<x>> \o s

\* sorted(..., key=end_time) is stable: an element goes after every element
\* whose key is not greater than its own.
RECURSIVE InsertByEnd(_, _)
InsertByEnd(x, s) ==
    IF s = <<>> THEN <<x>>
    ELSE IF Head(s).end_time <= x.end_time
         THEN <<Head(s)>> \o InsertByEnd(x, Tail(s))
         ELSE <<x>> \o s

RECURSIVE SortedByEnd(_)
SortedByEnd(s) ==
    IF s = <<>> THEN <<>>
    ELSE InsertByEnd(s[Len(s)], SortedByEnd(SubSeq(s, 1, Len(s) - 1)))

\* best = sorted(valid_markets, key=lambda x: x['end_time'])[0]
Best(valid) == SortedByEnd(valid)[1]

\* -------------------------------------------------------- signal providers
NoSignal ==
    [ok |-> FALSE, momentum |-> Rat(0, 1), direction |-> "neutral",
     price_now |-> 0, volume_ratio |-> Rat(1, 1)]

\* What api_request hands get_binance_momentum: its failure mapping, a
\* payload that is no list, or a list of n candles of which the code reads
\* the first open, the last close and every volume.
KlineResponses ==
    {[kind |-> k, open |-> 0, close |-> 0, vols |-> <<>>] :
        k \in {"error", "notlist"}}
    \cup
    UNION {[kind : {"candles"}, open : Prices, close : Prices,
            vols : SeqsOfLen(0..MaxVol, n)] : n \in 0..MaxCandles}

\* get_binance_momentum after the fetch.  fault: the division by a zero
\* price_then raises ZeroDivisionError.
BinanceMomentum(res) ==
    IF res.kind # "candles" \/ Len(res.vols) < 2
    THEN [fault |-> FALSE, signal |-> NoSignal]
    ELSE IF res.open = 0
    THEN [fault |-> TRUE, signal |-> NoSignal]
    ELSE LET momentum == Rat((res.close - res.open) * 100, res.open)
             total == SumSeq(res.vols)
             last == res.vols[Len(res.vols)]
             ratio == IF total > 0 THEN Rat(last * Len(res.vols), total)
                      ELSE Rat(1, 1)
         IN  [fault |-> FALSE,
              signal |-> [ok |-> TRUE, momentum |-> momentum,
                          direction |-> IF momentum.num > 0 THEN "up" ELSE "down",
                          price_now |-> res.close, volume_ratio |-> ratio]]

\* What api_request hands get_coingecko_momentum: its failure mapping, a
\* payload that is no mapping ("badshape": res.get raises AttributeError), a
\* mapping without a price ("noprice": usd is NoEntry), or one with a price.
SpotResponses ==
    {[kind |-> k, usd |-> NoEntry] : k \in {"error", "badshape", "noprice"}}
    \cup [kind : {"price"}, usd : Prices]

\* Lines 177-179: None for a failed fetch and for a falsy price.
SpotPrice(res) ==
    IF res.kind = "price" /\ res.usd # 0 THEN res.usd ELSE NoEntry

\* Lines 187-188 and 195-200: the signal from the loaded state.
SpotSignal(asset, price_now, state) ==
    LET prev_price == IF state[asset] = NoEntry THEN price_now ELSE state[asset]
        momentum == IF prev_price # 0
                    THEN Rat((price_now - prev_price) * 100, prev_price)
                    ELSE Rat(0, 1)
    IN  [ok |-> TRUE, momentum |-> momentum,
         direction |-> IF momentum.num > 0 THEN "up"
                       ELSE IF momentum.num < 0 THEN "down" ELSE "neutral",
         price_now |-> price_now, volume_ratio |-> Rat(1, 1)]

\* A slip: the fetched price is not put into the mapping that is written.
UpdatedStateStale(asset, price_now, state) == state

\* A slip: the mapping written holds the asset's entry alone.
UpdatedStateAlone(asset, price_now, state) ==
    [a \in Assets |-> IF a = asset THEN price_now ELSE NoEntry]

\* Line 191: state[f"{asset}_last_price"] = price_now
UpdatedState(asset, price_now, state) == [state EXCEPT ![asset] = price_now]

\* get_coingecko_momentum run alone, start to end, on the state file's
\* content: the signal, what the file holds afterwards, and whether the file
\* was read and written.
CoingeckoMomentum(asset, res, state) ==
    IF res.kind = "error"
    THEN [fault |-> FALSE, signal |-> NoSignal, state |-> state, touched |-> FALSE]
    ELSE IF res.kind = "badshape"
    THEN [fault |-> TRUE, signal |-> NoSignal, state |-> state, touched |-> FALSE]
    ELSE IF SpotPrice(res) = NoEntry
    THEN [fault |-> FALSE, signal |-> NoSignal, state |-> state, touched |-> FALSE]
    ELSE [fault |-> FALSE,
          signal |-> SpotSignal(asset, SpotPrice(res), state),
          state |-> UpdatedState(asset, SpotPrice(res), state),
          touched |-> TRUE]

\* ------------------------------------------------- run_strategy: the gates
\* A slip: <= for <.
MomentumTooWeakOrEqual(sig, c) ==
    Abs(sig.momentum.num) * 10 <= c.min_momentum_pct * sig.momentum.den

\* abs(signal['momentum_pct']) < cfg['min_momentum_pct']
MomentumTooWeak(sig, c) ==
    Abs(sig.momentum.num) * 10 < c.min_momentum_pct * sig.momentum.den

\* cfg['volume_confidence'] and signal['volume_ratio'] < 0.5
VolumeTooLow(sig, c) ==
    c.volume_confidence /\ 2 * sig.volume_ratio.num < sig.volume_ratio.den

\* side = "yes" if signal['direction'] == "up" else "no"
Side(direction) == IF direction = "up" THEN "yes" ELSE "no"

\* A slip: the live branch taken whatever args.live is.
HandoffAlways(lv, n) == n + 1

\* if args.live: the execution branch is reached once more, else not.
Handoff(lv, n) == IF lv THEN n + 1 ELSE n

\* =================================================================== state
VARIABLES
    \* --- one decision cycle (the script's __main__ and run_strategy)
    pc,             \* where the cycle stands
    live,           \* args.live
    cfg,            \* the configuration run_strategy is given
    nrecords,       \* discover_markets: len(result)
    k,              \* discover_markets: records of the listing gone through
    lastRec,        \* discover_markets: the record m of the last iteration
    markets,        \* discover_markets: the candidates collected
    now,            \* run_strategy: datetime.now(timezone.utc)
    valid_markets,  \* run_strategy: the candidates passing the time filter
    best,           \* run_strategy: the target market
    signal,         \* run_strategy: the provider's signal
    side,           \* run_strategy: the decided side
    outcome,        \* how the cycle ended
    exit_status,    \* the process's exit status
    calls,          \* the external fetches of this cycle, in order
    handoffs,       \* times this cycle reached the live execution branch
    stateFile,      \* STATE_FILE: asset -> its "{asset}_last_price" entry
    fileAtStart,    \* STATE_FILE's content when the cycle began
    touched,        \* STATE_FILE was read and rewritten in this cycle
    \* --- one call of api_request
    retries,        \* the retry budget
    loop_i,         \* the loop variable i
    outcomes,       \* what each attempt made so far came to
    sleeps,         \* the seconds of each time.sleep made so far
    result,         \* what the call returned
    rpc,            \* where the call stands
    \* --- one call of load_config
    user_config,    \* what config.json holds
    final_config,   \* the mapping returned
    cpc,            \* where the call stands
    \* --- successive calls of get_coingecko_momentum
    spot_prev,      \* the call before the last: asset, price fetched, ...
    spot_cur,       \* the last call
    \* --- concurrent invocations of get_coingecko_momentum
    inv,            \* each invocation: position, asset, price_now, state
    fileStatus,     \* STATE_FILE's bytes: "ok", "empty" or "corrupt"
    startFile,      \* STATE_FILE's content when the latest invocation began
    raced,          \* an invocation began while another was running
    latest,         \* per asset, the price of the latest rewrite made for it
    lastWrite       \* the latest completed rewrite of STATE_FILE

cycleRest ==
    <<pc, live, cfg, nrecords, k, lastRec, markets, now, valid_markets, best,
      side, outcome, exit_status, calls, handoffs, fileAtStart, touched>>
cycleVars == <<cycleRest, signal>>
fetchVars == <<retries, loop_i, outcomes, sleeps, result, rpc>>
configVars == <<user_config, final_config, cpc>>
spotVars == <<spot_prev, spot_cur>>
raceVars == <<inv, fileStatus, startFile, raced, latest, lastWrite>>

vars == <<cycleVars, stateFile, fetchVars, configVars, spotVars, raceVars>>

\* ------------------------------------------------------- the cycle's inputs
Configs ==
    [asset : Assets, signal_source : {"binance", "coingecko"},
     min_momentum_pct : MinMomentumChoices, volume_confidence : BOOLEAN,
     min_time_remaining : {DefaultMinTimeRemaining}]

\* What api_request hands discover_markets: its failure mapping, a payload
\* that is a mapping or a string ("notlist"), the JSON value null ("null":
\* the test "error" in None raises TypeError), or a list of n records.
ListingResponses ==
    {[kind |-> x, n |-> 0] : x \in {"error", "notlist", "null"}}
    \cup [kind : {"list"}, n : 0..MaxListing]

\* The CONFIG_SCHEMA defaults of the keys run_strategy reads.
DefaultConfig ==
    [asset |-> "BTC", signal_source |-> "binance", min_momentum_pct |-> 5,
     volume_confidence |-> TRUE, min_time_remaining |-> DefaultMinTimeRemaining]

\* os.path.exists(STATE_FILE) is false: state = {}.
NoStateFile == [a \in Assets |-> NoEntry]

StateFiles == [Assets -> Prices \cup {NoEntry}]

NoRecord ==
    [qmatch |-> FALSE, slugmatch |-> FALSE, deadline |-> NoEntry, prices |-> "absent"]

NoMarket == [idx |-> 0, end_time |-> 0, outcome_prices |-> <<>>]

\* ------------------------------------------- inputs of the other operations
\* requests raises one of these (all of them RequestException), or the
\* attempt succeeds with a payload.
FailureKinds == {"Timeout", "ConnectionError", "HTTPError"}
Payloads == {"payload_a", "payload_b", "payload_c"}
AttemptOutcomes == [ok : {TRUE}, what : Payloads] \cup [ok : {FALSE}, what : FailureKinds]

NoResult == [kind |-> "none", value |-> ""]

\* A JSON value, by its Python type.
Val(t, x) == [type |-> t, text |-> x]

CONFIG_SCHEMA ==
    [entry_threshold |-> [default |-> Val("float", "0.05"), type |-> "float"],
     min_momentum_pct |-> [default |-> Val("float", "0.5"), type |-> "float"],
     max_position |-> [default |-> Val("float", "5.0"), type |-> "float"],
     signal_source |-> [default |-> Val("str", "binance"), type |-> "str"],
     lookback_minutes |-> [default |-> Val("int", "5"), type |-> "int"],
     min_time_remaining |-> [default |-> Val("int", "60"), type |-> "int"],
     asset |-> [default |-> Val("str", "BTC"), type |-> "str"],
     window |-> [default |-> Val("str", "5m"), type |-> "str"],
     volume_confidence |-> [default |-> Val("bool", "True"), type |-> "bool"]]

ConfigKeys == DOMAIN CONFIG_SCHEMA

\* What config.json may be: missing, not JSON, JSON that is no object (a
\* list), or an object in which each recognized key is absent, present with
\* a value of its declared type ("typed") or present with a value of another
\* type ("mistyped").
UserConfigs ==
    {[kind |-> x, entries |-> [key \in ConfigKeys |-> "absent"]] :
        x \in {"nofile", "unparsable", "notmapping"}}
    \cup [kind : {"mapping"}, entries : [ConfigKeys -> {"absent", "typed", "mistyped"}]]

\* The value config.json gives a key.
UserValue(key, how) ==
    IF how = "typed" THEN Val(CONFIG_SCHEMA[key].type, "user")
    ELSE IF CONFIG_SCHEMA[key].type = "str" THEN Val("int", "user")
    ELSE Val("str", "user")

NoRun == [asset |-> "none", price |-> NoEntry, had_entry |-> FALSE, up_or_down |-> FALSE]

Procs == {"A", "B"}

IdleInvocation ==
    [pc |-> "idle", asset |-> "BTC", price_now |-> NoEntry, state |-> NoStateFile]

NoWrite ==
    [proc |-> "none", asset |-> "BTC", price |-> NoEntry,
     before |-> NoStateFile, after |-> NoStateFile, clean |-> TRUE]

FetchIdle ==
    /\ retries = 0
    /\ loop_i = 0
    /\ outcomes = <<>>
    /\ sleeps = <<>>
    /\ result = NoResult
    /\ rpc = "idle"

ConfigIdle ==
    /\ user_config = [kind |-> "nofile", entries |-> [key \in ConfigKeys |-> "absent"]]
    /\ final_config = [key \in ConfigKeys |-> CONFIG_SCHEMA[key].default]
    /\ cpc = "idle"

SpotIdle ==
    /\ spot_prev = NoRun
    /\ spot_cur = NoRun

RaceIdle ==
    /\ inv = [p \in Procs |-> IdleInvocation]
    /\ fileStatus = "ok"
    /\ startFile = NoStateFile
    /\ raced = FALSE
    /\ latest = NoStateFile
    /\ lastWrite = NoWrite

\* ------------------------------------------------------------------- Init
CycleInit ==
    /\ pc = "idle"
    /\ live = FALSE
    /\ cfg = DefaultConfig
    /\ nrecords = 0
    /\ k = 0
    /\ lastRec = NoRecord
    /\ markets = <<>>
    /\ now = 0
    /\ valid_markets = <<>>
    /\ best = NoMarket
    /\ signal = NoSignal
    /\ side = "none"
    /\ outcome = "none"
    /\ exit_status = 0
    /\ calls = <<>>
    /\ handoffs = 0
    /\ fileAtStart = stateFile
    /\ touched = FALSE

\* A fresh installation: no state file yet, no invocation running.
Init ==
    /\ stateFile = NoStateFile
    /\ CycleInit
    /\ FetchIdle
    /\ ConfigIdle
    /\ SpotIdle
    /\ RaceIdle

\* ---------------------------------------------------------------- actions
\* An exception nobody catches: the interpreter prints the traceback and the
\* process exits with status 1.
Fault ==
    /\ pc' = "done"
    /\ outcome' = "fault"
    /\ exit_status' = 1

\* A terminal path of run_strategy: it prints its status and returns.
Return(how) ==
    /\ pc' = "done"
    /\ outcome' = how
    /\ exit_status' = 0

\* __main__ (lines 252-258) and run_strategy up to get_api_key (206-208): a
\* scheduled invocation starts, after the previous one has ended.
Start ==
    /\ UNCHANGED <<fetchVars, configVars, spotVars, raceVars>>
    /\ pc = "idle"
    /\ \E has_key \in BOOLEAN, lv \in BOOLEAN, c \in Configs :
          /\ live' = lv
          /\ cfg' = c
          /\ IF has_key
             THEN pc' = "discover" /\ outcome' = "none" /\ exit_status' = 0
             ELSE pc' = "done" /\ outcome' = "no_credential" /\ exit_status' = 1
    /\ nrecords' = 0
    /\ k' = 0
    /\ lastRec' = NoRecord
    /\ markets' = <<>>
    /\ now' = 0
    /\ valid_markets' = <<>>
    /\ best' = NoMarket
    /\ signal' = NoSignal
    /\ side' = "none"
    /\ calls' = <<>>
    /\ handoffs' = 0
    /\ fileAtStart' = stateFile
    /\ touched' = FALSE
    /\ UNCHANGED stateFile

\* discover_markets, lines 117-125: the fetch and the test of its result.
DiscoverFetch ==
    /\ UNCHANGED <<fetchVars, configVars, spotVars, raceVars>>
    /\ pc = "discover"
    /\ calls' = Append(calls, "discovery")
    /\ \E r \in ListingResponses :
          CASE r.kind = "null" ->
                 Fault /\ UNCHANGED <<nrecords>>
            [] r.kind \in {"error", "notlist"} ->
                 /\ pc' = "select"
                 /\ UNCHANGED <<nrecords, outcome, exit_status>>
            [] OTHER ->
                 /\ pc' = "records"
                 /\ nrecords' = r.n
                 /\ UNCHANGED <<outcome, exit_status>>
    /\ UNCHANGED <<live, cfg, k, lastRec, markets, now, valid_markets, best,
                   signal, side, handoffs, fileAtStart, touched, stateFile>>

\* discover_markets, lines 126-139: one iteration of the loop.
DiscoverRecord ==
    /\ UNCHANGED <<fetchVars, configVars, spotVars, raceVars>>
    /\ pc = "records"
    /\ k < nrecords
    /\ k' = k + 1
    /\ \E m \in ListingRecords :
          LET r == ParseRecord(m, k + 1)
          IN  /\ lastRec' = m
              /\ IF r.fault
                 THEN Fault /\ UNCHANGED markets
                 ELSE /\ markets' = IF r.keep THEN Append(markets, r.cand)
                                    ELSE markets
                      /\ UNCHANGED <<pc, outcome, exit_status>>
    /\ UNCHANGED <<live, cfg, nrecords, now, valid_markets, best, signal, side,
                   calls, handoffs, fileAtStart, touched, stateFile>>

\* discover_markets, line 140: the loop is over, the candidates are returned.
DiscoverReturn ==
    /\ UNCHANGED <<fetchVars, configVars, spotVars, raceVars>>
    /\ pc = "records"
    /\ k = nrecords
    /\ pc' = "select"
    /\ lastRec' = NoRecord
    /\ UNCHANGED <<live, cfg, nrecords, k, markets, now, valid_markets, best,
                   signal, side, outcome, exit_status, calls, handoffs,
                   fileAtStart, touched, stateFile>>

\* run_strategy, lines 211-219: the time filter and the choice of the target.
SelectMarket ==
    /\ UNCHANGED <<fetchVars, configVars, spotVars, raceVars>>
    /\ pc = "select"
    /\ \E t \in Instants :
          LET valid == ValidMarkets(markets, t, cfg)
          IN  /\ now' = t
              /\ valid_markets' = valid
              /\ IF valid = <<>>
                 THEN Return("no_markets") /\ UNCHANGED best
                 ELSE /\ best' = Best(valid)
                      /\ pc' = "signal"
                      /\ UNCHANGED <<outcome, exit_status>>
    /\ UNCHANGED <<live, cfg, nrecords, k, lastRec, markets, signal, side,
                   calls, handoffs, fileAtStart, touched, stateFile>>

\* What run_strategy does with the provider's return (lines 227-231).
TakeSignal(r) ==
    /\ signal' = r.signal
    /\ IF r.fault THEN Fault
       ELSE IF ~r.signal.ok THEN Return("no_signal")
       ELSE pc' = "decide" /\ UNCHANGED <<outcome, exit_status>>

\* run_strategy, lines 222-223, with get_binance_momentum (146-168).
GetBinanceSignal ==
    /\ UNCHANGED <<fetchVars, configVars, spotVars, raceVars>>
    /\ pc = "signal"
    /\ cfg.signal_source = "binance"
    /\ calls' = Append(calls, "signal")
    /\ \E res \in KlineResponses : TakeSignal(BinanceMomentum(res))
    /\ UNCHANGED <<live, cfg, nrecords, k, lastRec, markets, now, valid_markets,
                   best, side, handoffs, fileAtStart, touched, stateFile>>

\* run_strategy, lines 224-225, with get_coingecko_momentum (170-200).
GetCoingeckoSignal ==
    /\ UNCHANGED <<fetchVars, configVars, spotVars, raceVars>>
    /\ pc = "signal"
    /\ cfg.signal_source # "binance"
    /\ calls' = Append(calls, "signal")
    /\ \E res \in SpotResponses :
          LET r == CoingeckoMomentum(cfg.asset, res, stateFile)
          IN  /\ TakeSignal(r)
              /\ stateFile' = r.state
              /\ touched' = r.touched
    /\ UNCHANGED <<live, cfg, nrecords, k, lastRec, markets, now, valid_markets,
                   best, side, handoffs, fileAtStart>>

\* run_strategy, lines 233-244: the two gates and the side.
Decide ==
    /\ UNCHANGED <<fetchVars, configVars, spotVars, raceVars>>
    /\ pc = "decide"
    /\ IF MomentumTooWeak(signal, cfg)
       THEN Return("weak") /\ UNCHANGED side
       ELSE IF VolumeTooLow(signal, cfg)
       THEN Return("low_volume") /\ UNCHANGED side
       ELSE /\ side' = Side(signal.direction)
            /\ outcome' = "decision"
            /\ pc' = "execute"
            /\ UNCHANGED exit_status
    /\ UNCHANGED <<live, cfg, nrecords, k, lastRec, markets, now, valid_markets,
                   best, signal, calls, handoffs, fileAtStart, touched, stateFile>>

\* run_strategy, lines 246-250: the live handoff or the dry-run message.
Execute ==
    /\ UNCHANGED <<fetchVars, configVars, spotVars, raceVars>>
    /\ pc = "execute"
    /\ handoffs' = Handoff(live, handoffs)
    /\ pc' = "done"
    /\ UNCHANGED <<live, cfg, nrecords, k, lastRec, markets, now, valid_markets,
                   best, signal, side, outcome, exit_status, calls, fileAtStart,
                   touched, stateFile>>

\* The process exits: its memory is gone, STATE_FILE stays.
Exit ==
    /\ UNCHANGED <<fetchVars, configVars, spotVars, raceVars>>
    /\ pc = "done"
    /\ pc' = "idle"
    /\ live' = FALSE
    /\ cfg' = DefaultConfig
    /\ nrecords' = 0
    /\ k' = 0
    /\ lastRec' = NoRecord
    /\ markets' = <<>>
    /\ now' = 0
    /\ valid_markets' = <<>>
    /\ best' = NoMarket
    /\ signal' = NoSignal
    /\ side' = "none"
    /\ outcome' = "none"
    /\ exit_status' = 0
    /\ calls' = <<>>
    /\ handoffs' = 0
    /\ fileAtStart' = stateFile
    /\ touched' = FALSE
    /\ UNCHANGED stateFile

Next ==
    \/ Start
    \/ Exit
    \/ DiscoverFetch
    \/ DiscoverRecord
    \/ DiscoverReturn
    \/ SelectMarket
    \/ GetBinanceSignal
    \/ GetCoingeckoSignal
    \/ Decide
    \/ Execute

Spec == Init /\ [][Next]_vars

\* ============================================= claims on the decision cycle
Terminals ==
    {"no_credential", "no_markets", "no_signal", "weak", "low_volume", "decision"}

\* |momentum_pct| >= min_momentum_pct, on the exact values.
StrongEnough ==
    Abs(signal.momentum.num) * 10 >= cfg.min_momentum_pct * signal.momentum.den

\* volume_confidence is disabled or volume_ratio >= 0.5
VolumeFine ==
    ~cfg.volume_confidence \/ 2 * signal.volume_ratio.num >= signal.volume_ratio.den

\* C1: a cycle that obtained a signal ends in a Decision if and only if
\* |momentum_pct| >= min_momentum_pct and (volume_confidence is off or
\* volume_ratio >= 0.5); a weak momentum is reported as such whatever the
\* volume is, a low volume only when the momentum is strong enough; and the
\* side of a Decision is "yes" exactly when the direction is "up", "no" for
\* "down" and for "neutral".
C1_DecisionGate ==
    (pc = "done" /\ signal.ok) =>
        /\ (outcome = "decision") <=> (StrongEnough /\ VolumeFine)
        /\ ~StrongEnough => outcome = "weak"
        /\ (StrongEnough /\ ~VolumeFine) => outcome = "low_volume"
        /\ outcome = "decision" =>
              /\ side \in {"yes", "no"}
              /\ (side = "yes") <=> (signal.direction = "up")

\* A Decision on a neutral signal, whose side is "no".
C1_Witness ==
    /\ pc = "done"
    /\ outcome = "decision"
    /\ signal.direction = "neutral"
    /\ side = "no"

\* C3: every cycle ends in one of the six terminal outcomes, never in an
\* uncaught fault, and its exit status is non-zero only for the missing
\* credential.
C3_CycleEndsCleanly ==
    pc = "done" =>
        /\ outcome \in Terminals
        /\ (exit_status # 0) <=> (outcome = "no_credential")

\* C4 as claimed: a dry-run cycle hands no order over and changes no
\* persisted state; a handoff happens only live and only after a Decision.
C4_DryRunNoSideEffect ==
    /\ ~live => (handoffs = 0 /\ stateFile = fileAtStart)
    /\ handoffs > 0 => (live /\ outcome = "decision")

\* C4 amended: a dry-run cycle hands no order over; a handoff happens only
\* live and only after a Decision; and the only persisted state a cycle
\* changes, dry-run or live, is the configured asset's last-price entry, which
\* the spot-price provider sets to the price it fetched when it is the
\* configured source: with the exchange-candle source nothing persisted
\* changes.
C4_DryRunAmended ==
    /\ ~live => handoffs = 0
    /\ handoffs > 0 => (live /\ outcome = "decision" /\ handoffs = 1)
    /\ cfg.signal_source = "binance" => stateFile = fileAtStart
    /\ \A a \in Assets : a # cfg.asset => stateFile[a] = fileAtStart[a]
    /\ stateFile # fileAtStart =>
          (signal.ok /\ stateFile[cfg.asset] = signal.price_now)

\* A dry-run cycle that reached a Decision and changed the state file.
C4_Witness ==
    /\ pc = "done"
    /\ ~live
    /\ outcome = "decision"
    /\ stateFile # fileAtStart

\* C7: the external fetches of a cycle are the discovery, then at most one
\* signal fetch, the latter only when a discovered market passes the
\* min_time_remaining filter; a cycle in which none passes ends with "no
\* suitable markets", having fetched the discovery alone and neither read nor
\* written the state file.
C7_CallOrder ==
    /\ calls \in {<<>>, <<"discovery">>, <<"discovery", "signal">>}
    /\ Len(calls) = 2 =>
          \E i \in 1..Len(markets) :
              markets[i].end_time - now > cfg.min_time_remaining
    /\ touched => Len(calls) = 2
    /\ outcome = "no_markets" =>
          (calls = <<"discovery">> /\ ~touched /\ stateFile = fileAtStart)
    /\ (pc = "done" /\ outcome \notin {"no_credential", "fault"}
           /\ \A i \in 1..Len(markets) :
                 ~(markets[i].end_time - now > cfg.min_time_remaining))
          => outcome = "no_markets"

\* Markets were discovered, none passes the filter, the cycle ended there.
C7_Witness ==
    /\ pc = "done"
    /\ outcome = "no_markets"
    /\ markets # <<>>
    /\ stateFile # NoStateFile

\* C8: the target market is a discovered candidate whose deadline is more
\* than min_time_remaining after now; no such candidate has an earlier
\* deadline; of those with the same deadline it is the first discovered.
C8_TargetMarket ==
    best # NoMarket =>
        \E i \in 1..Len(markets) :
            /\ markets[i] = best
            /\ best.end_time - now > cfg.min_time_remaining
            /\ \A j \in 1..Len(markets) :
                  (markets[j].end_time - now > cfg.min_time_remaining) =>
                      \/ best.end_time < markets[j].end_time
                      \/ (best.end_time = markets[j].end_time /\ i <= j)

\* Two valid candidates share the earliest deadline; the first is the target.
C8_Witness ==
    /\ Len(markets) = 2
    /\ markets[1].end_time = markets[2].end_time
    /\ best = markets[1]

\* C9: a record that passes the filter and has a parseable deadline yields a
\* candidate, whose outcome prices are [0.5, 0.5] when the record's
\* outcome-price field is absent, null or not JSON; discovery does not end in
\* a fault on it.
C9_MalformedPricesDefault ==
    (PassesFilter(lastRec) /\ lastRec.deadline # NoEntry) =>
        /\ outcome # "fault"
        /\ markets # <<>>
        /\ markets[Len(markets)].idx = k
        /\ markets[Len(markets)].end_time = lastRec.deadline
        /\ lastRec.prices \in {"absent", "null", "invalid"} =>
              markets[Len(markets)].outcome_prices = <<5, 5>>

\* ============================================================= api_request
\* A slip: the wait does not grow with the attempt.
SleepSecondsFixed(j) == 1

\* time.sleep(1 * (i + 1))
SleepSeconds(j) == 1 * (j + 1)

FetchInit ==
    /\ retries \in 0..MaxRetries
    /\ loop_i = 0
    /\ outcomes = <<>>
    /\ sleeps = <<>>
    /\ result = NoResult
    /\ rpc = "loop"
    /\ stateFile = NoStateFile
    /\ CycleInit
    /\ ConfigIdle
    /\ SpotIdle
    /\ RaceIdle

\* Lines 73-87: one pass of the loop body up to the return or the sleep.
Attempt ==
    /\ rpc = "loop"
    /\ loop_i < retries
    /\ \E o \in AttemptOutcomes :
          /\ outcomes' = Append(outcomes, o)
          /\ IF o.ok
             THEN /\ result' = [kind |-> "payload", value |-> o.what]
                  /\ rpc' = "returned"
             ELSE IF loop_i = retries - 1
             THEN /\ result' = [kind |-> "error", value |-> o.what]
                  /\ rpc' = "returned"
             ELSE /\ rpc' = "sleep"
                  /\ UNCHANGED result
    /\ UNCHANGED <<retries, loop_i, sleeps>>
    /\ UNCHANGED <<cycleVars, stateFile, configVars, spotVars, raceVars>>

\* Line 88, and the loop's step to the next i.
Sleep ==
    /\ rpc = "sleep"
    /\ sleeps' = Append(sleeps, SleepSeconds(loop_i))
    /\ loop_i' = loop_i + 1
    /\ rpc' = "loop"
    /\ UNCHANGED <<retries, outcomes, result>>
    /\ UNCHANGED <<cycleVars, stateFile, configVars, spotVars, raceVars>>

\* Line 89: the loop ran out without returning (a budget of 0).
Exhausted ==
    /\ rpc = "loop"
    /\ loop_i >= retries
    /\ result' = [kind |-> "error", value |-> "Max retries exceeded"]
    /\ rpc' = "returned"
    /\ UNCHANGED <<retries, loop_i, outcomes, sleeps>>
    /\ UNCHANGED <<cycleVars, stateFile, configVars, spotVars, raceVars>>

FetchNext ==
    \/ Attempt
    \/ Sleep
    \/ Exhausted

SpecFetch == FetchInit /\ [][FetchNext]_vars

\* C2: with a retry budget N >= 1, api_request makes at most N attempts, makes
\* none after a successful one and returns that one's payload; it has slept k
\* seconds after the k-th failed attempt before it tries again; and after N
\* failed attempts it returns a mapping with an "error" entry.
C2_BoundedRetry ==
    retries >= 1 =>
        /\ Len(outcomes) <= retries
        /\ \A j \in 1..(Len(outcomes) - 1) : ~outcomes[j].ok
        /\ \A j \in 1..Len(sleeps) : sleeps[j] = j
        /\ Len(sleeps) <= Len(outcomes)
        /\ rpc = "loop" => Len(sleeps) = Len(outcomes)
        /\ rpc # "returned" => result = NoResult
        /\ rpc = "returned" =>
              IF outcomes[Len(outcomes)].ok
              THEN result = [kind |-> "payload",
                             value |-> outcomes[Len(outcomes)].what]
              ELSE /\ Len(outcomes) = retries
                   /\ Len(sleeps) = retries - 1
                   /\ result.kind = "error"

\* Every attempt of a budget of at least three failed: the failure mapping is
\* returned after the waits of 1 and 2 seconds (and more for a larger budget).
C2_Witness ==
    /\ rpc = "returned"
    /\ retries >= 3
    /\ Len(outcomes) = retries
    /\ result.kind = "error"
    /\ Len(sleeps) = retries - 1

\* ============================================================= load_config
\* config.get(key, spec["default"])
ConfigGet(entries, key) ==
    IF entries[key] = "absent" THEN CONFIG_SCHEMA[key].default
    ELSE UserValue(key, entries[key])

ConfigInit ==
    /\ user_config = [kind |-> "nofile", entries |-> [key \in ConfigKeys |-> "absent"]]
    /\ final_config = [key \in ConfigKeys |-> CONFIG_SCHEMA[key].default]
    /\ cpc = "start"
    /\ stateFile = NoStateFile
    /\ CycleInit
    /\ FetchIdle
    /\ SpotIdle
    /\ RaceIdle

\* load_config, lines 50-62.  A missing or unparsable file leaves config = {};
\* JSON that is no object makes config.get raise AttributeError.
LoadConfig ==
    /\ cpc = "start"
    /\ \E u \in UserConfigs :
          /\ user_config' = u
          /\ IF u.kind = "notmapping"
             THEN cpc' = "fault" /\ UNCHANGED final_config
             ELSE /\ cpc' = "loaded"
                  /\ final_config' = [key \in ConfigKeys |-> ConfigGet(u.entries, key)]
    /\ UNCHANGED <<cycleVars, stateFile, fetchVars, spotVars, raceVars>>

ConfigNext == LoadConfig

SpecConfig == ConfigInit /\ [][ConfigNext]_vars

\* C6: the mapping load_config returns holds exactly the recognized keys, each
\* with a value of the type CONFIG_SCHEMA declares for it.
C6_ConfigTyped ==
    cpc = "loaded" =>
        /\ DOMAIN final_config = ConfigKeys
        /\ \A key \in ConfigKeys : final_config[key].type = CONFIG_SCHEMA[key].type

\* ======================================= successive get_coingecko_momentum
SpotInit ==
    /\ stateFile \in StateFiles
    /\ CycleInit
    /\ FetchIdle
    /\ ConfigIdle
    /\ SpotIdle
    /\ RaceIdle

\* One call of get_coingecko_momentum, start to end, no other running.
SpotRun ==
    /\ \E a \in Assets, res \in SpotResponses :
          LET r == CoingeckoMomentum(a, res, stateFile)
          IN  /\ stateFile' = r.state
              /\ signal' = r.signal
              /\ spot_cur' = [asset |-> a,
                              price |-> IF r.fault THEN NoEntry ELSE SpotPrice(res),
                              had_entry |-> stateFile[a] # NoEntry,
                              up_or_down |-> r.signal.momentum.num # 0]
    /\ spot_prev' = spot_cur
    /\ UNCHANGED <<cycleRest, fetchVars, configVars, raceVars>>

SpotNext == SpotRun

SpecSpot == SpotInit /\ [][SpotNext]_vars

Zero == [num |-> 0, den |-> 1]

\* C5: a call that fetched the price the call before it fetched, for the same
\* asset, returns momentum 0 and direction "neutral", whatever the state file
\* held before and whatever the first call returned; and a call that found no
\* entry for its asset returns momentum 0.
C5_SecondRunNeutral ==
    /\ (spot_cur.price # NoEntry /\ spot_prev.asset = spot_cur.asset
           /\ spot_prev.price = spot_cur.price)
          => (signal.ok /\ signal.momentum = Zero /\ signal.direction = "neutral")
    /\ (spot_cur.price # NoEntry /\ ~spot_cur.had_entry)
          => (signal.ok /\ signal.momentum = Zero)

\* The first of the two calls returned a non-zero momentum, the second fetched
\* the same price.
C5_Witness ==
    /\ spot_cur.price # NoEntry
    /\ spot_prev.asset = spot_cur.asset
    /\ spot_prev.price = spot_cur.price
    /\ spot_prev.up_or_down
    /\ signal.direction = "neutral"

\* ====================================== concurrent get_coingecko_momentum
Active == {"fetched", "loaded", "opened"}

\* The bytes json.dump writes grow with the number of entries (the keys have
\* one length, the prices of the model one digit).
Size(f) == Cardinality({a \in Assets : f[a] # NoEntry})

RaceInit ==
    /\ stateFile = NoStateFile
    /\ CycleInit
    /\ FetchIdle
    /\ ConfigIdle
    /\ SpotIdle
    /\ RaceIdle

\* Lines 172-179: an invocation begins and fetches the price; without a
\* price it ends (returning None, or raising) before it touches the file.
RaceStart(p) ==
    /\ inv[p].pc = "idle"
    /\ \E a \in Assets, res \in SpotResponses :
          inv' = [inv EXCEPT ![p] =
                    [pc |-> IF SpotPrice(res) = NoEntry THEN "done" ELSE "fetched",
                     asset |-> a, price_now |-> SpotPrice(res),
                     state |-> NoStateFile]]
    /\ raced' = (raced \/ \E q \in Procs \ {p} : inv[q].pc \in Active)
    /\ startFile' = stateFile
    /\ UNCHANGED <<stateFile, fileStatus, latest, lastWrite>>
    /\ UNCHANGED <<cycleVars, fetchVars, configVars, spotVars>>

\* Lines 182-185: the whole file is read; json.load raises on a file that is
\* empty or holds no JSON.
RaceLoad(p) ==
    /\ inv[p].pc = "fetched"
    /\ inv' = [inv EXCEPT ![p].pc = IF fileStatus = "ok" THEN "loaded" ELSE "fault",
                          ![p].state = IF fileStatus = "ok" THEN stateFile ELSE @]
    /\ UNCHANGED <<stateFile, fileStatus, startFile, raced, latest, lastWrite>>
    /\ UNCHANGED <<cycleVars, fetchVars, configVars, spotVars>>

\* Lines 187-192: the entry is set in the loaded mapping and open(.., 'w')
\* truncates the file.
RaceOpen(p) ==
    /\ inv[p].pc = "loaded"
    /\ inv' = [inv EXCEPT ![p].pc = "opened",
                          ![p].state = UpdatedState(inv[p].asset, inv[p].price_now, @)]
    /\ fileStatus' = "empty"
    /\ stateFile' = NoStateFile
    /\ UNCHANGED <<startFile, raced, latest, lastWrite>>
    /\ UNCHANGED <<cycleVars, fetchVars, configVars, spotVars>>

\* Line 193 and the close: the mapping's bytes are written from offset 0.  On
\* a file another invocation has filled since the truncation they replace it
\* if they are at least as long, and leave its tail behind if not.
RaceDump(p) ==
    /\ inv[p].pc = "opened"
    /\ inv' = [inv EXCEPT ![p].pc = "done"]
    /\ IF fileStatus = "empty"
          \/ (fileStatus = "ok" /\ Size(inv[p].state) >= Size(stateFile))
       THEN stateFile' = inv[p].state /\ fileStatus' = "ok"
       ELSE stateFile' = NoStateFile /\ fileStatus' = "corrupt"
    /\ lastWrite' = [proc |-> p, asset |-> inv[p].asset, price |-> inv[p].price_now,
                     before |-> startFile, after |-> stateFile',
                     clean |-> fileStatus' = "ok"]
    /\ latest' = [latest EXCEPT ![inv[p].asset] = inv[p].price_now]
    /\ UNCHANGED <<startFile, raced>>
    /\ UNCHANGED <<cycleVars, fetchVars, configVars, spotVars>>

\* The invocation's process is gone.
RaceExit(p) ==
    /\ inv[p].pc \in {"done", "fault"}
    /\ inv' = [inv EXCEPT ![p] = IdleInvocation]
    /\ UNCHANGED <<stateFile, fileStatus, startFile, raced, latest, lastWrite>>
    /\ UNCHANGED <<cycleVars, fetchVars, configVars, spotVars>>

RaceNext ==
    \E p \in Procs :
        \/ RaceStart(p)
        \/ RaceLoad(p)
        \/ RaceOpen(p)
        \/ RaceDump(p)
        \/ RaceExit(p)

SpecRace == RaceInit /\ [][RaceNext]_vars

\* No rewrite is under way, the file is well-formed, and for some asset it
\* does not hold the price of the latest rewrite made for that asset.
EntryLost ==
    /\ \A p \in Procs : inv[p].pc \in {"idle", "done"}
    /\ fileStatus = "ok"
    /\ stateFile # latest

\* C10: an entry an invocation wrote is lost to another invocation's rewrite
\* only when invocations have overlapped (and then it can be: C10_LostUpdate
\* is reachable).  As long as no invocation has begun while another was
\* running, no invocation fails on the file, the file is never left corrupt,
\* and the latest rewrite left the file as it was when that invocation began
\* but for its asset's entry, which is the price it fetched.
C10_OneAtATime ==
    /\ EntryLost => raced
    /\ ~raced =>
          /\ fileStatus # "corrupt"
          /\ \A p \in Procs : inv[p].pc # "fault"
          /\ lastWrite.proc # "none" =>
                /\ lastWrite.clean
                /\ lastWrite.after[lastWrite.asset] = lastWrite.price
                /\ \A a \in Assets \ {lastWrite.asset} :
                      lastWrite.after[a] = lastWrite.before[a]

\* Overlapping invocations have lost an entry: one read the file before the
\* other rewrote it, and then rewrote it from what it had read.
C10_LostUpdate == raced /\ EntryLost

====
